---- MODULE Spec2Model ----
(***************************************************************************)
(* LCD1602 over a PCF8574 I2C expander, 4-bit mode.                        *)
(* Model of the driver package (package lcd): the handle, the nibble       *)
(* framing (busWrite / writeByte / send), the initialisation handshake and *)
(* the public operations.                                                  *)
(*                                                                         *)
(* Every operation of the driver is one action.  The bytes an operation    *)
(* hands to the transport, the sleeps it takes and the transport open are  *)
(* recorded, in order, in ev; the caller reads them and then goes back to  *)
(* idle (Observe).  The transport is the environment: dev is the number of *)
(* writes it still accepts before it fails one (Arm, ArmInit).             *)
(***************************************************************************)
EXTENDS Integers, Sequences, FiniteSets

VARIABLES lcd, i2c, dev, op, ev, ret, pre, wk

vars == <<lcd, i2c, dev, op, ev, ret, pre, wk>>

(***************************************************************************)
(* Bounds of the model.                                                    *)
(***************************************************************************)
\* longest text handed to Write / Print
MaxTextLen == 2
\* a transport failure is injected after at most this many good writes
MaxOkWrites == 4
\* SetCursor is tried on every column -1 .. MaxColArg
MaxColArg == 21

\* calls a caller makes in a row on one log of the bus
MaxCalls == 3

\* the longest text written: one character more than the widest module holds
\* in a row
MaxWriteLen == 21

\* the latest write of a Write or a Print that fails
MaxWriteFail == 12

\* the turning columns of the walking character lie in 0..MaxWalkCol
MaxWalkCol == 4

(***************************************************************************)
(* Byte arithmetic (Go's byte is 8 bits wide).                             *)
(***************************************************************************)
Bytes == 0..255

RECURSIVE BitAndN(_, _, _)
BitAndN(a, b, n) ==
    IF n = 0 THEN 0
    ELSE (IF a % 2 = 1 /\ b % 2 = 1 THEN 1 ELSE 0)
         + 2 * BitAndN(a \div 2, b \div 2, n - 1)

RECURSIVE BitOrN(_, _, _)
BitOrN(a, b, n) ==
    IF n = 0 THEN 0
    ELSE (IF a % 2 = 1 \/ b % 2 = 1 THEN 1 ELSE 0)
         + 2 * BitOrN(a \div 2, b \div 2, n - 1)

BitAnd(a, b) == BitAndN(a, b, 8)

BitOr(a, b) == BitOrN(a, b, 8)

\* ^x on a byte
BitNot(a) == 255 - a

\* x << n on a byte
Shl(a, n) == (a * (2 ^ n)) % 256

\* x >> n on a byte
Shr(a, n) == a \div (2 ^ n)

\* byte(x) of an int or a rune
ToByte(x) == x % 256

(***************************************************************************)
(* Constants of the package.                                               *)
(***************************************************************************)
lcdRegisterCommand == 0

lcdRegisterData == 1

lcdWriteMode == 0

lcdEnableBit == 4

lcdBacklightOn == 8

lcdBacklightOff == 0

lcdClear == 1

lcdHome == 2

lcdEntryModeSet == 4

lcdEntryModeIDIncr == 2

lcdEntryModeShiftDisable == 0

lcdFuncSet == 32

lcdDL4Bit == 0

lcdNOneLine == 0

lcdNTwoLine == 8

lcdF5x8Dot == 0

lcdF5x10Dot == 4

Font5x8 == lcdF5x8Dot

Font5x10 == lcdF5x10Dot

lcdDisplayCtrl == 8

lcdDisplayOn == 4

lcdDisplayCursorOn == 2

lcdDisplayCursorOff == 0

lcdDisplayBlinkOn == 1

lcdDisplayBlinkOff == 0

lcdCGRAMAddrBase == 64

lcdDDRAMAddrBase == 128

(***************************************************************************)
(* The running call.  m.lcd is the handle, m.ev the events so far, m.err   *)
(* the error the call just made returned ("nil", "invalid" for a rejected  *)
(* argument, "io" for a failed transport write), m.ok the number of        *)
(* transport writes that still succeed before one fails (-1: none fails).  *)
(***************************************************************************)
NoFail == 0 - 1

\* an event: k = "w" a byte written, "x" a write that failed, "s" a sleep
\* (b in microseconds), "o" the transport opened; bl is lcd.backlight then
Ev(k, b, bl) == [k |-> k, b |-> b, bl |-> bl]

Run(h, ok) == [lcd |-> h, ev |-> <<>>, err |-> "nil", ok |-> ok]

\* v, evaluated once, handed to F
Eval(v, F(_)) == CHOOSE r \in {F(x) : x \in {v}} : TRUE

\* if err := <call>; err != nil { return err }; <rest>
\* m1 is the machine the call leaves, Rest what follows it
Try(m1, Rest(_)) == Eval(m1, LAMBDA x : IF x.err # "nil" THEN x ELSE Rest(x))

\* time.Sleep
Sleep(m, us) ==
    Eval(m, LAMBDA x : [x EXCEPT !.ev = Append(@, Ev("s", us, x.lcd.backlight))])

\* busWrite: one byte to the I2C device; the device decides whether it fails
busWrite(m, data) ==
    Eval(m, LAMBDA x :
        IF x.ok = 0
        THEN [x EXCEPT !.ev = Append(@, Ev("x", data, x.lcd.backlight)),
                       !.err = "io",
                       !.ok = NoFail]
        ELSE [x EXCEPT !.ev = Append(@, Ev("w", data, x.lcd.backlight)),
                       !.err = "nil",
                       !.ok = IF @ > 0 THEN @ - 1 ELSE @])

\* faulty writeByte: the backlight bit is left out of the byte
writeByte_noBacklight(m, value, rs) ==
    Eval(m, LAMBDA x :
        LET data0 == BitOr(BitOr(rs, lcdWriteMode), lcdEnableBit)
            data1 == BitOr(data0, Shl(value, 4))
            data2 == BitAnd(data1, BitNot(lcdEnableBit))
        IN  Try(busWrite(x, data1), LAMBDA m1 :
            Try(busWrite(m1, data2), LAMBDA m2 :
            Sleep(m2, 50))))

\* faulty writeByte: the second write leaves the enable bit set
writeByte_noLatch(m, value, rs) ==
    Eval(m, LAMBDA x :
        LET data0 == BitOr(BitOr(BitOr(rs, lcdWriteMode), lcdEnableBit), x.lcd.backlight)
            data1 == BitOr(data0, Shl(value, 4))
        IN  Try(busWrite(x, data1), LAMBDA m1 :
            Try(busWrite(m1, data1), LAMBDA m2 :
            Sleep(m2, 50))))

\* faulty writeByte: the read/write bit is set
writeByte_readMode(m, value, rs) ==
    Eval(m, LAMBDA x :
        LET data0 == BitOr(BitOr(BitOr(rs, 2), lcdEnableBit), x.lcd.backlight)
            data1 == BitOr(data0, Shl(value, 4))
            data2 == BitAnd(data1, BitNot(lcdEnableBit))
        IN  Try(busWrite(x, data1), LAMBDA m1 :
            Try(busWrite(m1, data2), LAMBDA m2 :
            Sleep(m2, 50))))

\* writeByte: one nibble, enable set then enable cleared, then 50us
writeByte(m, value, rs) ==
    Eval(m, LAMBDA x :
        LET data0 == BitOr(BitOr(BitOr(rs, lcdWriteMode), lcdEnableBit), x.lcd.backlight)
            data1 == BitOr(data0, Shl(value, 4))
            data2 == BitAnd(data1, BitNot(lcdEnableBit))
        IN  Try(busWrite(x, data1), LAMBDA m1 :
            Try(busWrite(m1, data2), LAMBDA m2 :
            Sleep(m2, 50))))

\* faulty send: low nibble first
send_lowFirst(m, value, rs) ==
    LET high == Shr(value, 4)
        low  == BitAnd(value, 15)
    IN  Try(writeByte(m, low, rs), LAMBDA m1 :
        writeByte(m1, high, rs))

\* faulty send: the error of the high nibble is dropped and the low nibble
\* is written all the same
send_noCheck(m, value, rs) ==
    LET high == Shr(value, 4)
        low  == BitAnd(value, 15)
    IN  Eval(writeByte(m, high, rs), LAMBDA m1 :
            writeByte([m1 EXCEPT !.err = "nil"], low, rs))

\* send: high nibble, then low nibble
send(m, value, rs) ==
    LET high == Shr(value, 4)
        low  == BitAnd(value, 15)
    IN  Try(writeByte(m, high, rs), LAMBDA m1 :
        writeByte(m1, low, rs))

sendCommand(m, command) == send(m, command, lcdRegisterCommand)

sendData(m, data) == send(m, data, lcdRegisterData)

\* a rejected argument: fmt.Errorf, nothing written
Invalid(m) == [m EXCEPT !.err = "invalid"]

(***************************************************************************)
(* Construction.                                                           *)
(***************************************************************************)
\* faulty validateInputs: the 5x10 font is let through on any number of rows
validateInputs_anyRows(cols, rows, font) ==
    IF cols # 16 /\ cols # 20 THEN "cols"
    ELSE IF rows # 1 /\ rows # 2 /\ rows # 4 THEN "rows"
    ELSE IF font # Font5x8 /\ font # Font5x10 THEN "font"
    ELSE "nil"

\* validateInputs: "nil", or the check that rejected the inputs
validateInputs(cols, rows, font) ==
    IF cols # 16 /\ cols # 20 THEN "cols"
    ELSE IF rows # 1 /\ rows # 2 /\ rows # 4 THEN "rows"
    ELSE IF font # Font5x8 /\ font # Font5x10 THEN "font"
    ELSE IF font = Font5x10 /\ rows # 1 THEN "font5x10"
    ELSE "nil"

\* Clear: the clear command, then 2ms
Clear(m) == Try(sendCommand(m, lcdClear), LAMBDA m1 : Sleep(m1, 2000))

\* Home: the home command, then 2ms
Home(m) == Try(sendCommand(m, lcdHome), LAMBDA m1 : Sleep(m1, 2000))

\* faulty init: the function set always asks for two lines
init_twoLines(m) ==
    Try(sendCommand(Sleep(m, 50000), 3), LAMBDA m1 :
    Try(sendCommand(Sleep(m1, 5000), 3), LAMBDA m2 :
    Try(sendCommand(Sleep(m2, 100), 3), LAMBDA m3 :
    Try(sendCommand(m3, 2), LAMBDA m4 :
    Try(sendCommand(m4, BitOr(BitOr(BitOr(lcdFuncSet, lcdDL4Bit), lcdNTwoLine),
                              m4.lcd.font)), LAMBDA m5 :
    Try(sendCommand(m5, BitOr(lcdDisplayCtrl, m5.lcd.displayState)), LAMBDA m6 :
    Try(sendCommand(m6, BitOr(BitOr(lcdEntryModeSet, lcdEntryModeIDIncr),
                              lcdEntryModeShiftDisable)), LAMBDA m7 :
    Clear(m7))))))))

\* faulty init: the second boot pattern follows the first at once
init_noWait(m) ==
    Try(sendCommand(Sleep(m, 50000), 3), LAMBDA m1 :
    Try(sendCommand(m1, 3), LAMBDA m2 :
    Try(sendCommand(Sleep(m2, 100), 3), LAMBDA m3 :
    Try(sendCommand(m3, 2), LAMBDA m4 :
    LET lineMode == IF m4.lcd.rows > 1 THEN lcdNTwoLine ELSE lcdNOneLine
    IN
    Try(sendCommand(m4, BitOr(BitOr(BitOr(lcdFuncSet, lcdDL4Bit), lineMode),
                              m4.lcd.font)), LAMBDA m5 :
    Try(sendCommand(m5, BitOr(lcdDisplayCtrl, m5.lcd.displayState)), LAMBDA m6 :
    Try(sendCommand(m6, BitOr(BitOr(lcdEntryModeSet, lcdEntryModeIDIncr),
                              lcdEntryModeShiftDisable)), LAMBDA m7 :
    Clear(m7))))))))

\* init: the 4-bit initialisation
init(m) ==
    Try(sendCommand(Sleep(m, 50000), 3), LAMBDA m1 :
    Try(sendCommand(Sleep(m1, 5000), 3), LAMBDA m2 :
    Try(sendCommand(Sleep(m2, 100), 3), LAMBDA m3 :
    Try(sendCommand(m3, 2), LAMBDA m4 :
    LET lineMode == IF m4.lcd.rows > 1 THEN lcdNTwoLine ELSE lcdNOneLine
    IN
    Try(sendCommand(m4, BitOr(BitOr(BitOr(lcdFuncSet, lcdDL4Bit), lineMode),
                              m4.lcd.font)), LAMBDA m5 :
    Try(sendCommand(m5, BitOr(lcdDisplayCtrl, m5.lcd.displayState)), LAMBDA m6 :
    Try(sendCommand(m6, BitOr(BitOr(lcdEntryModeSet, lcdEntryModeIDIncr),
                              lcdEntryModeShiftDisable)), LAMBDA m7 :
    Clear(m7))))))))

\* the LCD struct New builds before init: backlight is the zero value
NewLCD(cols, rows, font) ==
    [cols |-> cols, rows |-> rows, font |-> font,
     backlight |-> 0,
     displayState |-> BitOr(BitOr(lcdDisplayOn, lcdDisplayCursorOff), lcdDisplayBlinkOff)]

\* no handle (a nil *LCD)
NoHandle == [cols |-> 0, rows |-> 0, font |-> 0, backlight |-> 0, displayState |-> 0]

B2I(b) == IF b THEN 1 ELSE 0

\* no walking character (a nil *walkingCthulhu): direction is never 0 in one
NoWalker ==
    [direction |-> 0, turnBackCol |-> 0, turnForwardCol |-> 0, curCol |-> 0,
     curRow |-> 0, charLocation |-> 0]

\* faulty New: the half-initialised handle is returned with the error
New_halfBuilt(ok, cols, rows, font, isBacklightOn, openOk) ==
    IF validateInputs(cols, rows, font) # "nil"
    THEN [lcd |-> NoHandle, err |-> "invalid", ev |-> <<>>, ok |-> ok, opened |-> FALSE]
    ELSE IF ~openOk
    THEN [lcd |-> NoHandle, err |-> "io", ev |-> <<Ev("o", 0, 0)>>, ok |-> ok,
          opened |-> FALSE]
    ELSE Eval(init([Run(NewLCD(cols, rows, font), ok) EXCEPT !.ev = <<Ev("o", 1, 0)>>]),
              LAMBDA m :
        [lcd |-> IF isBacklightOn /\ m.err = "nil"
                 THEN [m.lcd EXCEPT !.backlight = lcdBacklightOn]
                 ELSE m.lcd,
         err |-> m.err, ev |-> m.ev, ok |-> m.ok, opened |-> TRUE])

\* New(bus, address, cols, rows, font, isBacklightOn) against a transport that
\* opens or not (openOk) and accepts ok writes: the handle returned (NoHandle
\* for nil), the error, the events, and whether the transport was opened
New(ok, cols, rows, font, isBacklightOn, openOk) ==
    IF validateInputs(cols, rows, font) # "nil"
    THEN [lcd |-> NoHandle, err |-> "invalid", ev |-> <<>>, ok |-> ok, opened |-> FALSE]
    ELSE IF ~openOk
    THEN [lcd |-> NoHandle, err |-> "io", ev |-> <<Ev("o", 0, 0)>>, ok |-> ok,
          opened |-> FALSE]
    ELSE Eval(init([Run(NewLCD(cols, rows, font), ok) EXCEPT !.ev = <<Ev("o", 1, 0)>>]),
              LAMBDA m :
        IF m.err # "nil"
        THEN [lcd |-> NoHandle, err |-> m.err, ev |-> m.ev, ok |-> m.ok, opened |-> TRUE]
        ELSE [lcd |-> IF isBacklightOn
                      THEN [m.lcd EXCEPT !.backlight = lcdBacklightOn]
                      ELSE m.lcd,
              err |-> "nil", ev |-> m.ev, ok |-> m.ok, opened |-> TRUE])

(***************************************************************************)
(* Operations on a handle.                                                 *)
(***************************************************************************)
RECURSIVE sendAll(_, _, _)
\* the loops of UploadCustomChar and Write: sendData on each byte from
\* index i on, stopping at the first error
sendAll(m, bytes, i) ==
    IF i > Len(bytes) THEN m
    ELSE Try(sendData(m, ToByte(bytes[i])), LAMBDA m1 : sendAll(m1, bytes, i + 1))

\* faulty UploadCustomChar: the location is not masked to three bits
UploadCustomChar_noMask(m, location, char) ==
    LET data == BitOr(lcdCGRAMAddrBase, Shl(location, 3))
    IN  Try(sendCommand(m, data), LAMBDA m1 : sendAll(m1, char, 1))

\* faulty UploadCustomChar: the cursor is put back into DDRAM at the end
UploadCustomChar_readdress(m, location, char) ==
    LET loc  == BitAnd(location, 7)
        data == BitOr(lcdCGRAMAddrBase, Shl(loc, 3))
    IN  Try(sendCommand(m, data), LAMBDA m1 :
        Try(sendAll(m1, char, 1), LAMBDA m2 :
        sendCommand(m2, lcdDDRAMAddrBase)))

UploadCustomChar(m, location, char) ==
    LET loc  == BitAnd(location, 7)
        data == BitOr(lcdCGRAMAddrBase, Shl(loc, 3))
    IN  Try(sendCommand(m, data), LAMBDA m1 : sendAll(m1, char, 1))

\* faulty SetCursor: the bases of rows 2 and 3 are those of a 16-column module
SetCursor_base16(m, row, col) ==
    Eval(m, LAMBDA x :
        IF col < 0 \/ col >= x.lcd.cols THEN Invalid(x)
        ELSE IF row \notin 0..3 THEN Invalid(x)
        ELSE LET base == CASE row = 0 -> lcdDDRAMAddrBase
                           [] row = 1 -> lcdDDRAMAddrBase + 64
                           [] row = 2 -> lcdDDRAMAddrBase + 16
                           [] row = 3 -> lcdDDRAMAddrBase + 80
                 addr == (base + ToByte(col)) % 256
             IN  sendCommand(x, addr))

\* faulty SetCursor: the column just past the last one is let through
SetCursor_colInclusive(m, row, col) ==
    Eval(m, LAMBDA x :
        IF col < 0 \/ col > x.lcd.cols THEN Invalid(x)
        ELSE IF row \notin 0..3 THEN Invalid(x)
        ELSE LET base == CASE row = 0 -> lcdDDRAMAddrBase
                           [] row = 1 -> lcdDDRAMAddrBase + 64
                           [] row = 2 -> lcdDDRAMAddrBase + 20
                           [] row = 3 -> lcdDDRAMAddrBase + 84
                 addr == (base + ToByte(col)) % 256
             IN  sendCommand(x, addr))

SetCursor(m, row, col) ==
    Eval(m, LAMBDA x :
        IF col < 0 \/ col >= x.lcd.cols THEN Invalid(x)
        ELSE IF row \notin 0..3 THEN Invalid(x)
        ELSE LET base == CASE row = 0 -> lcdDDRAMAddrBase
                           [] row = 1 -> lcdDDRAMAddrBase + 64
                           [] row = 2 -> lcdDDRAMAddrBase + 20
                           [] row = 3 -> lcdDDRAMAddrBase + 84
                 addr == (base + ToByte(col)) % 256
             IN  sendCommand(x, addr))

\* faulty Write: the text is cut at the width of the module
Write_clip(m, text) ==
    sendAll(m, SubSeq(text, 1, IF Len(text) < m.lcd.cols THEN Len(text) ELSE m.lcd.cols), 1)

\* Write: one data byte per code point of the text
Write(m, text) == sendAll(m, text, 1)

WriteRAW(m, raw) == sendData(m, raw)

\* faulty Print: the text is written whatever SetCursor returned
LCDPrint_anyway(m, text, row, col) ==
    Eval(SetCursor(m, row, col), LAMBDA m1 : Write([m1 EXCEPT !.err = "nil"], text))

\* LCD.Print (the bare name is taken by the tools)
LCDPrint(m, text, row, col) ==
    Try(SetCursor(m, row, col), LAMBDA m1 : Write(m1, text))

PrintRAW(m, raw, row, col) ==
    Try(SetCursor(m, row, col), LAMBDA m1 : WriteRAW(m1, raw))

\* faulty EnableBacklight: the new backlight bit goes out as a nibble transfer
EnableBacklight_strobe(m) ==
    Eval([m EXCEPT !.lcd.backlight = lcdBacklightOn], LAMBDA m1 :
        writeByte(m1, 0, lcdRegisterCommand))

EnableBacklight(m) ==
    Eval([m EXCEPT !.lcd.backlight = lcdBacklightOn], LAMBDA m1 :
        busWrite(m1, m1.lcd.backlight))

DisableBacklight(m) ==
    Eval([m EXCEPT !.lcd.backlight = lcdBacklightOff], LAMBDA m1 :
        busWrite(m1, m1.lcd.backlight))

\* faulty ToggleBacklight: the backlight is enabled whatever it was
ToggleBacklight_enable(m) == EnableBacklight(m)

ToggleBacklight(m) ==
    Eval(m, LAMBDA x :
        IF x.lcd.backlight = lcdBacklightOff THEN EnableBacklight(x)
        ELSE DisableBacklight(x))

\* faulty setBit: the command is built before the state is updated
setBit_stale(m, bit) ==
    Eval(m, LAMBDA x :
        Eval(sendCommand(x, BitOr(lcdDisplayCtrl, x.lcd.displayState)), LAMBDA m1 :
            [m1 EXCEPT !.lcd.displayState = BitOr(@, bit)]))

\* the body shared by DisplayOn, CursorOn, BlinkOn
setBit(m, bit) ==
    Eval([m EXCEPT !.lcd.displayState = BitOr(@, bit)], LAMBDA m1 :
        sendCommand(m1, BitOr(lcdDisplayCtrl, m1.lcd.displayState)))

\* faulty clearBit: the whole display-control state is cleared
clearBit_all(m, bit) ==
    Eval([m EXCEPT !.lcd.displayState = 0], LAMBDA m1 :
        sendCommand(m1, BitOr(lcdDisplayCtrl, m1.lcd.displayState)))

\* faulty clearBit: a failed send puts the state back
clearBit_rollback(m, bit) ==
    Eval([m EXCEPT !.lcd.displayState = BitAnd(@, BitNot(bit))], LAMBDA m1 :
        Eval(sendCommand(m1, BitOr(lcdDisplayCtrl, m1.lcd.displayState)), LAMBDA m2 :
            IF m2.err # "nil" THEN [m2 EXCEPT !.lcd = m.lcd] ELSE m2))

\* the body shared by DisplayOff, CursorOff, BlinkOff
clearBit(m, bit) ==
    Eval([m EXCEPT !.lcd.displayState = BitAnd(@, BitNot(bit))], LAMBDA m1 :
        sendCommand(m1, BitOr(lcdDisplayCtrl, m1.lcd.displayState)))

DisplayOn(m) == setBit(m, lcdDisplayOn)

DisplayOff(m) == clearBit(m, lcdDisplayOn)

ToggleDisplay(m) ==
    Eval(m, LAMBDA x :
        IF BitAnd(x.lcd.displayState, lcdDisplayOn) = lcdDisplayOn THEN DisplayOff(x)
        ELSE DisplayOn(x))

CursorOn(m) == setBit(m, lcdDisplayCursorOn)

CursorOff(m) == clearBit(m, lcdDisplayCursorOn)

\* faulty ToggleCursor: the cursor is turned on whatever it was
ToggleCursor_on(m) == CursorOn(m)

ToggleCursor(m) ==
    Eval(m, LAMBDA x :
        IF BitAnd(x.lcd.displayState, lcdDisplayCursorOn) = lcdDisplayCursorOn
        THEN CursorOff(x)
        ELSE CursorOn(x))

BlinkOn(m) == setBit(m, lcdDisplayBlinkOn)

BlinkOff(m) == clearBit(m, lcdDisplayBlinkOn)

ToggleBlink(m) ==
    Eval(m, LAMBDA x :
        IF BitAnd(x.lcd.displayState, lcdDisplayBlinkOn) = lcdDisplayBlinkOn
        THEN BlinkOff(x)
        ELSE BlinkOn(x))

(***************************************************************************)
(* The inputs the operations are tried on.                                 *)
(***************************************************************************)
Idle == [name |-> "idle", args |-> <<>>, data |-> <<>>, ok |-> NoFail]

\* where a transport write fails: never, or after 0..MaxOkWrites good writes
Budgets == {NoFail} \cup 0..MaxOkWrites

\* init makes 8 sends of 4 writes: a failure at every one of them
InitBudgets == {NoFail} \cup 0..(8 * 4 - 1)

ColsArgs == {15, 16, 20}

RowsArgs == 0..4

FontArgs == {Font5x8, Font5x10, 8}

\* code points: 'H' and one beyond a byte (U+0149, whose low byte is 'I')
Alphabet == {72, 329}

Texts == UNION {[1..n -> Alphabet] : n \in 0..MaxTextLen}

\* the glyph of the demo, and one with eight different rows
cthulhu == <<14, 31, 21, 31, 14, 31, 21, 21>>

Patterns == {cthulhu, <<0, 255, 1, 2, 4, 8, 16, 31>>}

RawArgs == {0, 3, 255}

LocArgs == {0, 3, 7, 8, 255}

CursorRows == (0 - 1)..4

\* every column, and the columns at the edges of the two widths
AllCols == (0 - 1)..MaxColArg

EdgeCols == {0 - 1, 0, 15, 16, 19, 20}

\* the i-th code point of the long text: letters, every fourth one beyond a
\* byte
CodePoint(i) == IF i % 4 = 0 THEN 320 + i ELSE 64 + i

LongText == [i \in 1..MaxWriteLen |-> CodePoint(i)]

\* the long text and every prefix of it, the empty one included
WriteTexts == {SubSeq(LongText, 1, n) : n \in 0..MaxWriteLen}

PrintTexts == {<<>>, SubSeq(LongText, 1, 3), LongText}

WriteBudgets == {NoFail} \cup 0..MaxWriteFail

\* <<row, col>> handed to Print and PrintRAW
Positions == {<<0, 0>>, <<1, 5>>, <<3, 19>>, <<0, 16>>, <<4, 0>>}

(***************************************************************************)
(* The state machine: a caller that constructs a handle, calls its         *)
(* operations one at a time and closes it.                                 *)
(***************************************************************************)
Init ==
    /\ lcd = NoHandle
    /\ i2c = "none"
    /\ dev = NoFail
    /\ op = Idle
    /\ ev = <<>>
    /\ ret = "nil"
    /\ pre = NoHandle
    /\ wk = NoWalker

Ready == lcd.cols # 0 /\ op.name = "idle"

\* the call on the handle, against the transport as it is
Handle == Run(lcd, dev)

\* the operation returned: its events, its error and the handle it leaves
Returned(name, args, data, m) ==
    \E r \in {m} :
        /\ lcd' = r.lcd
        /\ dev' = r.ok
        /\ ev' = r.ev
        /\ ret' = r.err
        /\ op' = [name |-> name, args |-> args, data |-> data, ok |-> dev]
        /\ pre' = lcd
        /\ UNCHANGED <<i2c, wk>>

\* the transport will fail a write of the calls to come
Arm ==
    \E ok \in Budgets :
        /\ Ready
        /\ dev # ok
        /\ dev' = ok
        /\ UNCHANGED <<lcd, i2c, op, ev, ret, pre, wk>>

\* the transport will fail a write of the construction to come
ArmInit ==
    \E ok \in InitBudgets :
        /\ lcd.cols = 0
        /\ op.name = "idle"
        /\ dev # ok
        /\ dev' = ok
        /\ UNCHANGED <<lcd, i2c, op, ev, ret, pre, wk>>

\* the caller constructs a handle
CallNew ==
    \E cols \in ColsArgs, rows \in RowsArgs, font \in FontArgs,
       isBacklightOn \in BOOLEAN, openOk \in BOOLEAN :
        /\ lcd.cols = 0
        /\ op.name = "idle"
        /\ \E r \in {New(dev, cols, rows, font, isBacklightOn, openOk)} :
            /\ op' = [name |-> "New",
                      args |-> <<cols, rows, font, B2I(isBacklightOn), B2I(openOk)>>,
                      data |-> <<>>, ok |-> dev]
            /\ pre' = lcd
            /\ lcd' = r.lcd
            /\ dev' = r.ok
            /\ ev' = r.ev
            /\ ret' = r.err
            /\ i2c' = IF r.opened THEN "open" ELSE i2c
            /\ UNCHANGED wk

\* Close: closes the device; the caller drops the handle
Close ==
    /\ Ready
    /\ lcd' = NoHandle
    /\ i2c' = "closed"
    /\ ev' = <<Ev("c", 0, lcd.backlight)>>
    /\ ret' = "nil"
    /\ op' = [name |-> "Close", args |-> <<>>, data |-> <<>>, ok |-> dev]
    /\ pre' = lcd
    /\ UNCHANGED <<dev, wk>>

CallClear == Ready /\ Returned("Clear", <<>>, <<>>, Clear(Handle))

CallHome == Ready /\ Returned("Home", <<>>, <<>>, Home(Handle))

CallUploadCustomChar(Locs) ==
    \E location \in Locs, char \in Patterns :
        Ready /\ Returned("UploadCustomChar", <<location>>, char,
                          UploadCustomChar(Handle, location, char))

CallSetCursor(Cols) ==
    \E row \in CursorRows, col \in Cols :
        Ready /\ Returned("SetCursor", <<row, col>>, <<>>, SetCursor(Handle, row, col))

CallPrint ==
    \E text \in Texts, p \in Positions :
        Ready /\ Returned("Print", <<p[1], p[2]>>, text,
                          LCDPrint(Handle, text, p[1], p[2]))

CallPrintRAW ==
    \E raw \in RawArgs, p \in Positions :
        Ready /\ Returned("PrintRAW", <<p[1], p[2], raw>>, <<>>,
                          PrintRAW(Handle, raw, p[1], p[2]))

CallWrite ==
    \E text \in Texts :
        Ready /\ Returned("Write", <<>>, text, Write(Handle, text))

CallWriteRAW ==
    \E raw \in RawArgs :
        Ready /\ Returned("WriteRAW", <<raw>>, <<>>, WriteRAW(Handle, raw))

CallEnableBacklight ==
    Ready /\ Returned("EnableBacklight", <<>>, <<>>, EnableBacklight(Handle))

CallDisableBacklight ==
    Ready /\ Returned("DisableBacklight", <<>>, <<>>, DisableBacklight(Handle))

CallToggleBacklight ==
    Ready /\ Returned("ToggleBacklight", <<>>, <<>>, ToggleBacklight(Handle))

CallDisplayOn == Ready /\ Returned("DisplayOn", <<>>, <<>>, DisplayOn(Handle))

CallDisplayOff == Ready /\ Returned("DisplayOff", <<>>, <<>>, DisplayOff(Handle))

CallToggleDisplay == Ready /\ Returned("ToggleDisplay", <<>>, <<>>, ToggleDisplay(Handle))

CallCursorOn == Ready /\ Returned("CursorOn", <<>>, <<>>, CursorOn(Handle))

CallCursorOff == Ready /\ Returned("CursorOff", <<>>, <<>>, CursorOff(Handle))

CallToggleCursor == Ready /\ Returned("ToggleCursor", <<>>, <<>>, ToggleCursor(Handle))

CallBlinkOn == Ready /\ Returned("BlinkOn", <<>>, <<>>, BlinkOn(Handle))

CallBlinkOff == Ready /\ Returned("BlinkOff", <<>>, <<>>, BlinkOff(Handle))

CallToggleBlink == Ready /\ Returned("ToggleBlink", <<>>, <<>>, ToggleBlink(Handle))

\* the caller has read the result of the last call
Observe ==
    /\ op.name # "idle"
    /\ op' = Idle
    /\ ev' = <<>>
    /\ ret' = "nil"
    /\ pre' = lcd
    /\ UNCHANGED <<lcd, i2c, dev, wk>>

Next ==
    \/ Arm
    \/ ArmInit
    \/ CallNew
    \/ Close
    \/ CallClear
    \/ CallHome
    \/ CallUploadCustomChar(LocArgs)
    \/ CallSetCursor(EdgeCols)
    \/ CallPrint
    \/ CallPrintRAW
    \/ CallWrite
    \/ CallWriteRAW
    \/ CallEnableBacklight
    \/ CallDisableBacklight
    \/ CallToggleBacklight
    \/ CallDisplayOn
    \/ CallDisplayOff
    \/ CallToggleDisplay
    \/ CallCursorOn
    \/ CallCursorOff
    \/ CallToggleCursor
    \/ CallBlinkOn
    \/ CallBlinkOff
    \/ CallToggleBlink
    \/ Observe

Spec == Init /\ [][Next]_vars

(***************************************************************************)
(* The framing functions on their own: the caller holds a byte (op.name =  *)
(* "arg") and hands it to send, to writeByte when it is a nibble, or to    *)
(* UploadCustomChar as the location, on a handle as New leaves it.         *)
(***************************************************************************)
\* a 16x2 display with the 5x8 font and a 20x1 display with the 5x10 font
ByteGeometries == {<<16, 2, Font5x8>>, <<20, 1, Font5x10>>}

InitBytes ==
    /\ lcd \in {[NewLCD(g[1], g[2], g[3]) EXCEPT !.backlight = b] :
                   g \in ByteGeometries, b \in {lcdBacklightOff, lcdBacklightOn}}
    /\ i2c = "open"
    /\ dev \in Budgets
    /\ op \in {[name |-> "arg", args |-> <<v>>, data |-> <<>>, ok |-> NoFail] : v \in Bytes}
    /\ ev = <<>>
    /\ ret = "nil"
    /\ pre = lcd
    /\ wk = NoWalker

HasArg == lcd.cols # 0 /\ op.name = "arg"

CallSend ==
    \E rs \in {lcdRegisterCommand, lcdRegisterData} :
        HasArg /\ Returned("send", <<op.args[1], rs>>, <<>>, send(Handle, op.args[1], rs))

CallWriteByte ==
    \E rs \in {lcdRegisterCommand, lcdRegisterData} :
        /\ HasArg
        /\ op.args[1] < 16
        /\ Returned("writeByte", <<op.args[1], rs>>, <<>>,
                    writeByte(Handle, op.args[1], rs))

CallUploadAt ==
    \E char \in Patterns :
        HasArg /\ Returned("UploadCustomChar", <<op.args[1]>>, char,
                           UploadCustomChar(Handle, op.args[1], char))

NextBytes ==
    \/ CallSend
    \/ CallWriteByte
    \/ CallUploadAt
    \/ Observe

SpecBytes == InitBytes /\ [][NextBytes]_vars

(***************************************************************************)
(* SetCursor on its own: every row and column argument, on every geometry  *)
(* New accepts.                                                            *)
(***************************************************************************)
Geometries ==
    {g \in ColsArgs \X RowsArgs \X FontArgs : validateInputs(g[1], g[2], g[3]) = "nil"}

InitCursor ==
    /\ lcd \in {[NewLCD(g[1], g[2], g[3]) EXCEPT !.backlight = b] :
                   g \in Geometries, b \in {lcdBacklightOff, lcdBacklightOn}}
    /\ i2c = "open"
    /\ dev \in Budgets
    /\ op = Idle
    /\ ev = <<>>
    /\ ret = "nil"
    /\ pre = lcd
    /\ wk = NoWalker

NextCursor ==
    \/ CallSetCursor(AllCols)
    \/ Observe

SpecCursor == InitCursor /\ [][NextCursor]_vars

(***************************************************************************)
(* Text on its own: Write and Print of texts up to MaxWriteLen characters, *)
(* on every geometry New accepts, with a write failing as late as the      *)
(* third character.                                                        *)
(***************************************************************************)
InitWrite ==
    /\ lcd \in {[NewLCD(g[1], g[2], g[3]) EXCEPT !.backlight = b] :
                   g \in Geometries, b \in {lcdBacklightOff, lcdBacklightOn}}
    /\ i2c = "open"
    /\ dev \in WriteBudgets
    /\ op = Idle
    /\ ev = <<>>
    /\ ret = "nil"
    /\ pre = lcd
    /\ wk = NoWalker

CallWriteOf(T) ==
    \E text \in T :
        Ready /\ Returned("Write", <<>>, text, Write(Handle, text))

CallPrintOf(T, P) ==
    \E text \in T, p \in P :
        Ready /\ Returned("Print", <<p[1], p[2]>>, text,
                          LCDPrint(Handle, text, p[1], p[2]))

NextWrite ==
    \/ CallWriteOf(WriteTexts)
    \/ CallPrintOf(PrintTexts, Positions)
    \/ Observe

SpecWrite == InitWrite /\ [][NextWrite]_vars

(***************************************************************************)
(* Calls in a row: a caller that makes up to MaxCalls calls, going on      *)
(* while they return nil, over a transport that does not fail.  The log of *)
(* the bus is kept across the calls; op.data lists the calls made, each    *)
(* with the handle it was made on and the length of the log before it.     *)
(***************************************************************************)
SessionText == <<72, 329>>

SessionOps ==
    {"DisplayOn", "DisplayOff", "ToggleDisplay", "CursorOn", "CursorOff",
     "ToggleCursor", "BlinkOn", "BlinkOff", "ToggleBlink", "ToggleBacklight",
     "Clear", "Write", "WriteRAW", "SetCursor"}

ToggleOps == {"ToggleDisplay", "ToggleCursor", "ToggleBlink", "ToggleBacklight"}

\* the operation of that name on m; those with arguments get fixed ones
Apply(name, m) ==
    CASE name = "DisplayOn" -> DisplayOn(m)
      [] name = "DisplayOff" -> DisplayOff(m)
      [] name = "ToggleDisplay" -> ToggleDisplay(m)
      [] name = "CursorOn" -> CursorOn(m)
      [] name = "CursorOff" -> CursorOff(m)
      [] name = "ToggleCursor" -> ToggleCursor(m)
      [] name = "BlinkOn" -> BlinkOn(m)
      [] name = "BlinkOff" -> BlinkOff(m)
      [] name = "ToggleBlink" -> ToggleBlink(m)
      [] name = "ToggleBacklight" -> ToggleBacklight(m)
      [] name = "Clear" -> Clear(m)
      [] name = "Write" -> Write(m, SessionText)
      [] name = "WriteRAW" -> WriteRAW(m, 12)
      [] name = "SetCursor" -> SetCursor(m, 1, 5)
      [] name = "UploadCustomChar" -> UploadCustomChar(m, 11, cthulhu)

Session == [name |-> "session", args |-> <<>>, data |-> <<>>, ok |-> NoFail]

MadeCall(name, h, at) == [name |-> name, lcd |-> h, at |-> at]

SessionGeometries == {<<16, 2, Font5x8>>, <<20, 4, Font5x8>>}

InitSession ==
    /\ lcd = NoHandle
    /\ i2c = "none"
    /\ dev = NoFail
    /\ op = Session
    /\ ev = <<>>
    /\ ret = "nil"
    /\ pre = NoHandle
    /\ wk = NoWalker

\* the first call of a session: the construction
SessionNew ==
    \E g \in SessionGeometries, isBacklightOn \in BOOLEAN :
        /\ lcd.cols = 0
        /\ op.name = "session"
        /\ op.data = <<>>
        /\ \E r \in {New(dev, g[1], g[2], g[3], isBacklightOn, TRUE)} :
            /\ lcd' = r.lcd
            /\ dev' = r.ok
            /\ ev' = ev \o r.ev
            /\ ret' = r.err
            /\ op' = [op EXCEPT !.data = Append(@, MadeCall("New", lcd, Len(ev)))]
            /\ pre' = lcd
            /\ i2c' = IF r.opened THEN "open" ELSE i2c
            /\ UNCHANGED wk

\* the next call of a session
CallNext(Ops) ==
    \E name \in Ops :
        /\ lcd.cols # 0
        /\ op.name = "session"
        /\ ret = "nil"
        /\ Len(op.data) < MaxCalls
        /\ \E r \in {Apply(name, Handle)} :
            /\ lcd' = r.lcd
            /\ dev' = r.ok
            /\ ev' = ev \o r.ev
            /\ ret' = r.err
            /\ op' = [op EXCEPT !.data = Append(@, MadeCall(name, lcd, Len(ev)))]
            /\ pre' = lcd
            /\ UNCHANGED <<i2c, wk>>

NextSession ==
    \/ SessionNew
    \/ CallNext(SessionOps)

SpecSession == InitSession /\ [][NextSession]_vars

\* the toggles in a row, on a handle in any display-control and backlight
\* state the On and Off operations can leave
InitToggle ==
    /\ lcd \in {[NewLCD(16, 2, Font5x8) EXCEPT !.backlight = b, !.displayState = d] :
                   b \in {lcdBacklightOff, lcdBacklightOn}, d \in 0..7}
    /\ i2c = "open"
    /\ dev = NoFail
    /\ op = Session
    /\ ev = <<>>
    /\ ret = "nil"
    /\ pre = lcd
    /\ wk = NoWalker

NextToggle == CallNext(ToggleOps)

SpecToggle == InitToggle /\ [][NextToggle]_vars

\* a glyph uploaded and text written, in any order, with nothing else between
UploadOps == {"UploadCustomChar", "Write", "WriteRAW"}

InitUpload ==
    /\ lcd \in {[NewLCD(g[1], g[2], g[3]) EXCEPT !.backlight = b] :
                   g \in Geometries, b \in {lcdBacklightOff, lcdBacklightOn}}
    /\ i2c = "open"
    /\ dev = NoFail
    /\ op = Session
    /\ ev = <<>>
    /\ ret = "nil"
    /\ pre = lcd
    /\ wk = NoWalker

NextUpload == CallNext(UploadOps)

SpecUpload == InitUpload /\ [][NextUpload]_vars

(***************************************************************************)
(* The driver of src/pkg/lcd (lcd.go): the same framing (busWrite,         *)
(* writeByte, send, Clear are the same code), its own New, init and        *)
(* SetCursor.  Its handle has no font and no display-control state; they   *)
(* stay 0 in the record.  Names shared with the driver above carry Pkg.    *)
(***************************************************************************)
\* init of lcd.go: the boot patterns are handed to busWrite as they are
PkgInit(m) ==
    Try(busWrite(Sleep(m, 50000), 48), LAMBDA m1 :
    Try(busWrite(Sleep(m1, 5000), 48), LAMBDA m2 :
    Try(busWrite(Sleep(m2, 100), 48), LAMBDA m3 :
    Try(busWrite(m3, 32), LAMBDA m4 :
    Try(sendCommand(m4, BitOr(BitOr(BitOr(lcdFuncSet, lcdDL4Bit), lcdNTwoLine),
                              Font5x8)), LAMBDA m5 :
    Try(sendCommand(m5, BitOr(BitOr(BitOr(lcdDisplayCtrl, lcdDisplayOn),
                                    lcdDisplayCursorOff), lcdDisplayBlinkOff)),
        LAMBDA m6 :
    Try(sendCommand(m6, BitOr(BitOr(lcdEntryModeSet, lcdEntryModeIDIncr),
                              lcdEntryModeShiftDisable)), LAMBDA m7 :
    Clear(m7))))))))

\* the LCD struct New of lcd.go builds before init
PkgLCD(cols, rows) ==
    [cols |-> cols, rows |-> rows, font |-> 0, backlight |-> 0, displayState |-> 0]

\* New of lcd.go: no validation of cols and rows
PkgNew(ok, cols, rows, isBacklightOn, openOk) ==
    IF ~openOk
    THEN [lcd |-> NoHandle, err |-> "io", ev |-> <<Ev("o", 0, 0)>>, ok |-> ok,
          opened |-> FALSE]
    ELSE Eval(PkgInit([Run(PkgLCD(cols, rows), ok) EXCEPT !.ev = <<Ev("o", 1, 0)>>]),
              LAMBDA m :
        IF m.err # "nil"
        THEN [lcd |-> NoHandle, err |-> m.err, ev |-> m.ev, ok |-> m.ok, opened |-> TRUE]
        ELSE [lcd |-> IF isBacklightOn
                      THEN [m.lcd EXCEPT !.backlight = lcdBacklightOn]
                      ELSE m.lcd,
              err |-> "nil", ev |-> m.ev, ok |-> m.ok, opened |-> TRUE])

\* SetCursor of lcd.go: the only check on col is col > lcd.cols
PkgSetCursor(m, row, col) ==
    Eval(m, LAMBDA x :
        IF col > x.lcd.cols THEN Invalid(x)
        ELSE IF row \notin 0..3 THEN Invalid(x)
        ELSE LET base == CASE row = 0 -> lcdDDRAMAddrBase
                           [] row = 1 -> lcdDDRAMAddrBase + 64
                           [] row = 2 -> lcdDDRAMAddrBase + 20
                           [] row = 3 -> lcdDDRAMAddrBase + 84
                 addr == (base + ToByte(col)) % 256
             IN  sendCommand(x, addr))

PkgRowsArgs == {1, 2, 4}

PkgColsArgs == {16, 20}

CallPkgNew ==
    \E cols \in PkgColsArgs, rows \in PkgRowsArgs,
       isBacklightOn \in BOOLEAN, openOk \in BOOLEAN :
        /\ lcd.cols = 0
        /\ op.name = "idle"
        /\ \E r \in {PkgNew(dev, cols, rows, isBacklightOn, openOk)} :
            /\ op' = [name |-> "PkgNew",
                      args |-> <<cols, rows, B2I(isBacklightOn), B2I(openOk)>>,
                      data |-> <<>>, ok |-> dev]
            /\ pre' = lcd
            /\ lcd' = r.lcd
            /\ dev' = r.ok
            /\ ev' = r.ev
            /\ ret' = r.err
            /\ i2c' = IF r.opened THEN "open" ELSE i2c
            /\ UNCHANGED wk

CallPkgSetCursor ==
    \E row \in CursorRows, col \in AllCols :
        Ready /\ Returned("PkgSetCursor", <<row, col>>, <<>>,
                          PkgSetCursor(Handle, row, col))

NextPkg ==
    \/ Arm
    \/ ArmInit
    \/ CallPkgNew
    \/ CallPkgSetCursor
    \/ Close
    \/ Observe

SpecPkg == Init /\ [][NextPkg]_vars

(***************************************************************************)
(* The walking character of package ctulhu, on a handle of the driver.     *)
(* wk is the walkingCthulhu struct.  Its New uploads the glyph and draws   *)
(* it; when the upload fails it returns the error and no walker, when the  *)
(* drawing fails it ends the process (log.Fatal).  MakeStep drops the      *)
(* errors of its two prints.                                               *)
(***************************************************************************)
\* New of package ctulhu on m: the walker, the machine, and the outcome
CtulhuNew(m, startRow, startCol, turnBackCol, turnForwardCol, direction, charLocation) ==
    LET direct == IF direction < 0 THEN 0 - 1 ELSE 1
    IN  Eval(UploadCustomChar(m, charLocation, cthulhu), LAMBDA m1 :
            IF m1.err # "nil" THEN [wk |-> NoWalker, m |-> m1, out |-> m1.err]
            ELSE Eval(PrintRAW(m1, charLocation, startRow, startCol), LAMBDA m2 :
                IF m2.err # "nil" THEN [wk |-> NoWalker, m |-> m2, out |-> "fatal"]
                ELSE [wk |-> [direction |-> direct,
                              turnBackCol |-> turnBackCol,
                              turnForwardCol |-> turnForwardCol,
                              curCol |-> startCol,
                              curRow |-> startRow,
                              charLocation |-> charLocation],
                      m |-> m2, out |-> "nil"]))

\* faulty MakeStep: the walker moves first and turns afterwards
MakeStep_lateTurn(w, m) ==
    LET col == w.curCol + w.direction
        d == IF w.direction = 1 /\ col = w.turnBackCol THEN 0 - 1
             ELSE IF w.direction = 0 - 1 /\ col = w.turnForwardCol THEN 1
             ELSE w.direction
    IN  Eval(LCDPrint(m, <<32>>, w.curRow, w.curCol), LAMBDA m1 :
        Eval(PrintRAW([m1 EXCEPT !.err = "nil"], w.charLocation, w.curRow, col),
             LAMBDA m2 :
            [wk |-> [w EXCEPT !.direction = d, !.curCol = col],
             m |-> [m2 EXCEPT !.err = "nil"]]))

\* MakeStep: turn at a turning column, blank the column, move, draw
MakeStep(w, m) ==
    LET d == IF w.direction = 1 /\ w.curCol = w.turnBackCol THEN 0 - 1
             ELSE IF w.direction = 0 - 1 /\ w.curCol = w.turnForwardCol THEN 1
             ELSE w.direction
        col == w.curCol + d
    IN  Eval(LCDPrint(m, <<32>>, w.curRow, w.curCol), LAMBDA m1 :
        Eval(PrintRAW([m1 EXCEPT !.err = "nil"], w.charLocation, w.curRow, col),
             LAMBDA m2 :
            [wk |-> [w EXCEPT !.direction = d, !.curCol = col],
             m |-> [m2 EXCEPT !.err = "nil"]]))

\* <<startRow, startCol, turnBackCol, turnForwardCol>> with the start between
\* the turning columns
WalkArgs ==
    {a \in (0..1) \X (0..MaxWalkCol) \X (0..MaxWalkCol) \X (0..MaxWalkCol) :
        a[4] < a[3] /\ a[4] <= a[2] /\ a[2] <= a[3]}

WalkDirections == {0 - 3, 0 - 1, 0, 1, 2}

\* no failure; the upload fails; the first drawing fails; a step fails
WalkBudgets == {NoFail, 2, 38, 46}

InitWalk ==
    /\ lcd \in {[NewLCD(16, 2, Font5x8) EXCEPT !.backlight = b] :
                   b \in {lcdBacklightOff, lcdBacklightOn}}
    /\ i2c = "open"
    /\ dev \in WalkBudgets
    /\ op = Idle
    /\ ev = <<>>
    /\ ret = "nil"
    /\ pre = lcd
    /\ wk = NoWalker

CallCtulhuNew ==
    \E a \in WalkArgs, direction \in WalkDirections :
        /\ Ready
        /\ wk = NoWalker
        /\ \E r \in {CtulhuNew(Handle, a[1], a[2], a[3], a[4], direction, 0)} :
            /\ wk' = r.wk
            /\ lcd' = r.m.lcd
            /\ dev' = r.m.ok
            /\ ev' = r.m.ev
            /\ ret' = r.out
            /\ op' = [name |-> "CtulhuNew",
                      args |-> <<a[1], a[2], a[3], a[4], direction, 0>>,
                      data |-> cthulhu, ok |-> dev]
            /\ pre' = lcd
            /\ UNCHANGED i2c

\* op.args keeps the column and the direction the step started from
CallMakeStep ==
    /\ wk # NoWalker
    /\ ret # "fatal"
    /\ \E r \in {MakeStep(wk, Handle)} :
        /\ wk' = r.wk
        /\ lcd' = r.m.lcd
        /\ dev' = r.m.ok
        /\ ev' = r.m.ev
        /\ ret' = "nil"
        /\ op' = [name |-> "MakeStep", args |-> <<wk.curCol, wk.direction>>,
                  data |-> <<>>, ok |-> dev]
        /\ pre' = lcd
        /\ UNCHANGED i2c

NextWalk ==
    \/ CallCtulhuNew
    \/ CallMakeStep

SpecWalk == InitWalk /\ [][NextWalk]_vars

(***************************************************************************)
(* Two callers on one handle: each calls WriteRAW with its own byte, from  *)
(* its own goroutine and with no lock of its own.  A step is one bus write *)
(* of one caller; op.args counts the bus writes each caller has made,      *)
(* op.data holds the bus writes the WriteRAW of each consists of, and the  *)
(* log names the caller of a write.  The callers only read the fields of   *)
(* the handle, so what each writes does not depend on the other.           *)
(***************************************************************************)
Callers == {1, 2}

Other(c) == 3 - c

ConcBytes == {65, 90}

\* the bus writes WriteRAW(raw) makes on handle h, in order
WritesOfWriteRAW(h, raw) ==
    LET w == SelectSeq(WriteRAW(Run(h, NoFail), raw).ev, LAMBDA e : e.k = "w")
    IN  <<>> \o [i \in 1..Len(w) |-> w[i].b]

InitConc ==
    /\ lcd \in {[NewLCD(16, 2, Font5x8) EXCEPT !.backlight = b] :
                   b \in {lcdBacklightOff, lcdBacklightOn}}
    /\ i2c = "open"
    /\ dev = NoFail
    /\ op \in {[name |-> "concurrent", args |-> <<0, 0>>,
                data |-> <<WritesOfWriteRAW(lcd, v1), WritesOfWriteRAW(lcd, v2)>>,
                ok |-> NoFail] : v1 \in ConcBytes, v2 \in ConcBytes}
    /\ ev = <<>>
    /\ ret = "nil"
    /\ pre = lcd
    /\ wk = NoWalker

\* a caller that takes a lock around each nibble transfer: no bus write while
\* the other caller is between its two writes
StepWriteRAW_locked(c) ==
    /\ op.name = "concurrent"
    /\ op.args[c] < Len(op.data[c])
    /\ op.args[Other(c)] \notin {1, 3}
    /\ ev' = Append(ev, [k |-> "w",
                         b |-> op.data[c][op.args[c] + 1],
                         bl |-> lcd.backlight,
                         by |-> c])
    /\ op' = [op EXCEPT !.args[c] = @ + 1]
    /\ UNCHANGED <<lcd, i2c, dev, ret, pre, wk>>

\* caller c makes the next bus write of its WriteRAW
StepWriteRAW(c) ==
    /\ op.name = "concurrent"
    /\ op.args[c] < Len(op.data[c])
    /\ ev' = Append(ev, [k |-> "w",
                         b |-> op.data[c][op.args[c] + 1],
                         bl |-> lcd.backlight,
                         by |-> c])
    /\ op' = [op EXCEPT !.args[c] = @ + 1]
    /\ UNCHANGED <<lcd, i2c, dev, ret, pre, wk>>

NextConc == \E c \in Callers : StepWriteRAW(c)

SpecConc == InitConc /\ [][NextConc]_vars

(***************************************************************************)
(* Reading the events of the last call.                                    *)
(***************************************************************************)
\* the value (0 or 1) of the bit with weight w in byte b
Bit(b, w) == (b \div w) % 2

IsWrite(e) == e.k = "w"

IsFailed(e) == e.k = "x"

\* the bytes the transport accepted, in order
Written ==
    LET w == SelectSeq(ev, IsWrite)
    IN  <<>> \o [i \in 1..Len(w) |-> w[i].b]

\* no transport write of the call failed
NoWriteFailed == SelectSeq(ev, IsFailed) = <<>>

HasEnable(b) == Bit(b, 4) = 1

\* the nibble transfers: the accepted bytes with the enable bit set, as
\* <<nibble, register-select>>
Nibbles ==
    LET n == SelectSeq(Written, HasEnable)
    IN  <<>> \o [i \in 1..Len(n) |-> <<n[i] \div 16, Bit(n[i], 1)>>]

\* the bytes the controller assembles in 4-bit mode: two nibble transfers
\* each, high nibble first, as <<byte, register-select>>
Frames ==
    LET n == Nibbles
    IN  <<>> \o [j \in 1..(Len(n) \div 2) |->
                    <<n[2 * j - 1][1] * 16 + n[2 * j][1], n[2 * j][2]>>]

\* the accepted bytes, and the bytes the controller assembles, of a part e
\* of the log
WrittenOf(e) ==
    LET w == SelectSeq(e, IsWrite)
    IN  <<>> \o [i \in 1..Len(w) |-> w[i].b]

FramesOf(e) ==
    LET n == SelectSeq(WrittenOf(e), HasEnable)
    IN  <<>> \o [j \in 1..(Len(n) \div 2) |->
                    <<(n[2 * j - 1] \div 16) * 16 + (n[2 * j] \div 16), Bit(n[2 * j], 1)>>]

\* the log of the last k calls of a session
LastCalls(k) == SubSeq(ev, op.data[Len(op.data) + 1 - k].at + 1, Len(ev))

\* base address of a row as the HD44780 lays DDRAM out
RowBase(row) ==
    CASE row = 0 -> 128
      [] row = 1 -> 192
      [] row = 2 -> 148
      [] row = 3 -> 212

(***************************************************************************)
(* The framing of a byte.                                                  *)
(***************************************************************************)
\* C1: send(v, rs), when no transport write fails, makes exactly four writes:
\* high nibble with enable set, high nibble with enable cleared, low nibble
\* with enable set, low nibble with enable cleared; register-select and
\* backlight bits are the same in all four, enable is set in the first and
\* third only.
C1_SendFourWrites ==
    (op.name = "send" /\ NoWriteFailed) =>
        LET W == Written
        IN  /\ ret = "nil"
            /\ Len(W) = 4
            /\ W[1] \div 16 = op.args[1] \div 16
            /\ W[2] \div 16 = op.args[1] \div 16
            /\ W[3] \div 16 = op.args[1] % 16
            /\ W[4] \div 16 = op.args[1] % 16
            /\ \A i \in 1..4 :
                /\ Bit(W[i], 1) = op.args[2]
                /\ Bit(W[i], 8) = pre.backlight \div 8
                /\ Bit(W[i], 4) = (IF i \in {1, 3} THEN 1 ELSE 0)

C1_Witness ==
    /\ op.name = "send"
    /\ NoWriteFailed
    /\ op.args = <<165, 1>>
    /\ pre.backlight = lcdBacklightOn
    /\ Written = <<173, 169, 93, 89>>

\* C2: writeByte(n, rs) on a nibble n writes b | rs | 0x04 | (n << 4) and then
\* the same byte with only 0x04 cleared; hence for a byte v sent with send the
\* upper nibbles of the first and third write put v together again.
C2_WriteByteLayout ==
    /\ (op.name = "writeByte" /\ NoWriteFailed) =>
        LET W == Written
        IN  /\ Len(W) = 2
            /\ W[1] = pre.backlight + op.args[2] + 4 + 16 * op.args[1]
            /\ W[2] = W[1] - 4
    /\ (op.name = "send" /\ NoWriteFailed) =>
        LET W == Written
        IN  (W[1] \div 16) * 16 + (W[3] \div 16) = op.args[1]

C2_Witness ==
    /\ op.name = "writeByte"
    /\ NoWriteFailed
    /\ op.args = <<10, 1>>
    /\ pre.backlight = lcdBacklightOn
    /\ Written = <<173, 169>>

(***************************************************************************)
(* Construction.                                                           *)
(***************************************************************************)
\* New returned a handle
Constructed == op.name = "New" /\ ret = "nil"

\* the function set New sends for the geometry and font it was given
FunctionSetOf(rows, font) == 32 + (IF rows > 1 THEN 8 ELSE 0) + font

\* C3: a construction in which no write fails emits exactly these nibble
\* transfers, in this order: 0x3, 0x3, 0x3 and 0x2 as single nibbles, then
\* the two nibbles each of function set, display control 0x0C, entry mode
\* 0x06 and clear display 0x01.
C3_InitNibbleSequence ==
    Constructed =>
        LET N == Nibbles
        IN  [i \in 1..Len(N) |-> N[i][1]]
            = <<3, 3, 3, 2,
                FunctionSetOf(op.args[2], op.args[3]) \div 16,
                FunctionSetOf(op.args[2], op.args[3]) % 16,
                0, 12, 0, 6, 0, 1>>

\* C4: the function set sent by New is 0x20 | (0x08 if rows > 1) | font, it
\* is sent once per construction, and no operation on the handle sends a
\* command byte of the function-set class (bits 7..5 = 001).
C4_FunctionSetOnce ==
    LET F == Frames
        IsFunctionSet(f) == f[2] = 0 /\ f[1] \div 32 = 1
    IN  /\ Constructed =>
            /\ Cardinality({j \in 1..Len(F) : IsFunctionSet(F[j])}) = 1
            /\ \A j \in 1..Len(F) :
                   IsFunctionSet(F[j]) =>
                       /\ j = 5
                       /\ F[j][1] = FunctionSetOf(op.args[2], op.args[3])
        /\ op.name # "New" =>
            \A j \in 1..Len(F) : ~IsFunctionSet(F[j])

C4_Witness ==
    /\ Constructed
    /\ op.args[1] = 20 /\ op.args[2] = 4 /\ op.args[3] = Font5x8
    /\ Len(Frames) = 8
    /\ Frames[5] = <<40, 0>>

\* C5: New returns an error before opening the transport and before any
\* write exactly when cols is not 16 or 20, rows is not 1, 2 or 4, the font is
\* not 5x8 or 5x10, or the font is 5x10 with more than one row; so a handle
\* always has cols in {16, 20}, rows in {1, 2, 4}, and rows = 1 under 5x10.
C5_ValidationEager ==
    /\ op.name = "New" =>
        ((ret # "nil" /\ ev = <<>>)
            <=> \/ op.args[1] \notin {16, 20}
                \/ op.args[2] \notin {1, 2, 4}
                \/ op.args[3] \notin {0, 4}
                \/ (op.args[3] = 4 /\ op.args[2] # 1))
    /\ lcd.cols # 0 =>
        /\ lcd.cols \in {16, 20}
        /\ lcd.rows \in {1, 2, 4}
        /\ lcd.font \in {0, 4}
        /\ (lcd.font = 4 => lcd.rows = 1)

C5_Witness ==
    /\ op.name = "New"
    /\ op.args[1] = 20 /\ op.args[2] = 2 /\ op.args[3] = Font5x10
    /\ ret = "invalid"
    /\ ev = <<>>
    /\ i2c = "none"

(***************************************************************************)
(* Cursor addressing.                                                      *)
(***************************************************************************)
\* C6: on a handle of geometry (cols, rows), SetCursor(row, col) with row in
\* [0, rows), col in [0, cols) and no failing write sends one command byte,
\* RowBase(row) + col, and nothing else.
C6_SetCursorAddress ==
    (/\ op.name = "SetCursor"
     /\ op.args[1] \in 0..(pre.rows - 1)
     /\ op.args[2] \in 0..(pre.cols - 1)
     /\ NoWriteFailed) =>
        /\ ret = "nil"
        /\ Len(Written) = 4
        /\ Frames = << <<RowBase(op.args[1]) + op.args[2], 0>> >>

C6_Witness ==
    /\ op.name = "SetCursor"
    /\ pre.cols = 20 /\ pre.rows = 4
    /\ op.args = <<3, 19>>
    /\ NoWriteFailed
    /\ Frames = << <<231, 0>> >>

\* C7: SetCursor(row, col) fails with an invalid-argument error and writes
\* nothing whenever col is outside [0, cols) or row is outside [0, rows).
C7_SetCursorRejects ==
    (/\ op.name = "SetCursor"
     /\ \/ op.args[1] \notin 0..(pre.rows - 1)
        \/ op.args[2] \notin 0..(pre.cols - 1)) =>
        /\ ret = "invalid"
        /\ ev = <<>>

(***************************************************************************)
(* Custom characters and text.                                             *)
(***************************************************************************)
\* C8: UploadCustomChar(location, pattern), for any location byte and with no
\* failing write, sends the command 0x40 | ((location & 7) << 3) and then the
\* eight pattern bytes as data, in order; it never rejects its arguments.
C8_UploadFrames ==
    op.name = "UploadCustomChar" =>
        /\ ret # "invalid"
        /\ NoWriteFailed =>
            /\ ret = "nil"
            /\ Len(Written) = 36
            /\ Frames = << <<64 + 8 * (op.args[1] % 8), 0>> >>
                           \o [i \in 1..8 |-> <<op.data[i], 1>>]

C8_Witness ==
    /\ op.name = "UploadCustomChar"
    /\ op.args = <<255>>
    /\ op.data = cthulhu
    /\ NoWriteFailed
    /\ Frames[1] = <<120, 0>>
    /\ Frames[9] = <<21, 1>>

\* C9: with the backlight on, Print(text, row, col) at a valid position and
\* with no failing write makes 4 writes for the address command
\* RowBase(row) + col and 4 for each of the n characters, in order, every
\* byte with the backlight bit set; in general every byte written carries
\* the backlight bit as lcd.backlight is at that moment.
C9_PrintFramesBacklight ==
    /\ (/\ op.name = "Print"
        /\ pre.backlight = lcdBacklightOn
        /\ op.args[1] \in 0..(pre.rows - 1)
        /\ op.args[2] \in 0..(pre.cols - 1)
        /\ NoWriteFailed) =>
            LET W == Written
            IN  /\ ret = "nil"
                /\ Len(W) = 4 + 4 * Len(op.data)
                /\ Frames = << <<RowBase(op.args[1]) + op.args[2], 0>> >>
                               \o [i \in 1..Len(op.data) |-> <<op.data[i] % 256, 1>>]
                /\ \A i \in 1..Len(W) : Bit(W[i], 8) = 1
    /\ \A i \in 1..Len(ev) :
           ev[i].k \in {"w", "x"} => Bit(ev[i].b, 8) = ev[i].bl \div 8

C9_Witness ==
    /\ op.name = "Print"
    /\ pre.backlight = lcdBacklightOn
    /\ pre.cols = 16 /\ pre.rows = 2
    /\ op.args = <<0, 0>>
    /\ op.data = <<72, 329>>
    /\ NoWriteFailed
    /\ Written = <<140, 136, 12, 8, 77, 73, 141, 137, 77, 73, 157, 153>>

\* C10: when New is called with isBacklightOn and succeeds, the last byte it
\* wrote to the expander has the backlight bit set.
C10_BacklightOnAtInit ==
    (Constructed /\ op.args[4] = 1) =>
        LET W == Written
        IN  Bit(W[Len(W)], 8) = 1

(***************************************************************************)
(* The display-control state.                                              *)
(***************************************************************************)
OnNames == {"DisplayOn", "CursorOn", "BlinkOn"}

OffNames == {"DisplayOff", "CursorOff", "BlinkOff"}

\* the bit of the display-control state an operation is about
OwnBit(name) ==
    CASE name \in {"DisplayOn", "DisplayOff", "ToggleDisplay"} -> 4
      [] name \in {"CursorOn", "CursorOff", "ToggleCursor"} -> 2
      [] name \in {"BlinkOn", "BlinkOff", "ToggleBlink"} -> 1

\* state s with the bit of weight w set, cleared, inverted
WithBit(s, w) == IF Bit(s, w) = 1 THEN s ELSE s + w

WithoutBit(s, w) == IF Bit(s, w) = 1 THEN s - w ELSE s

Inverted(s, w) == IF Bit(s, w) = 1 THEN s - w ELSE s + w

\* C11: DisplayOn, CursorOn, BlinkOn set and DisplayOff, CursorOff, BlinkOff
\* clear exactly their own bit of the display-control state (display 0x04,
\* cursor 0x02, blink 0x01); nothing else of the handle changes, the backlight
\* included; with no failing write exactly one command is sent, 0x08 | the
\* new three-bit state.
C11_OnOffOwnBit ==
    op.name \in OnNames \cup OffNames =>
        LET w == OwnBit(op.name)
            t == IF op.name \in OnNames
                 THEN WithBit(pre.displayState, w)
                 ELSE WithoutBit(pre.displayState, w)
        IN  /\ lcd = [pre EXCEPT !.displayState = t]
            /\ lcd.backlight = pre.backlight
            /\ NoWriteFailed =>
                /\ ret = "nil"
                /\ Len(Written) = 4
                /\ Frames = << <<8 + t, 0>> >>

C11_Witness ==
    /\ op.name = "CursorOff"
    /\ pre.displayState = 7
    /\ pre.backlight = lcdBacklightOn
    /\ lcd.displayState = 5
    /\ lcd.backlight = lcdBacklightOn
    /\ NoWriteFailed
    /\ Frames = << <<13, 0>> >>

\* C12: ToggleDisplay, ToggleCursor, ToggleBlink invert exactly their bit of
\* the display-control state, whatever the state, and send the command of the
\* resulting state; the same toggle called twice in a row restores the state
\* and its second command is 0x08 | the original state.
C12_ToggleInverts ==
    (op.name = "session" /\ op.data # <<>>) =>
        LET n == Len(op.data)
            last == op.data[n]
        IN  last.name \in {"ToggleDisplay", "ToggleCursor", "ToggleBlink"} =>
                LET F == FramesOf(LastCalls(1))
                IN  /\ ret = "nil"
                    /\ lcd = [last.lcd EXCEPT
                                 !.displayState = Inverted(@, OwnBit(last.name))]
                    /\ F = << <<8 + lcd.displayState, 0>> >>
                    /\ (n >= 2 /\ op.data[n - 1].name = last.name) =>
                        /\ lcd = op.data[n - 1].lcd
                        /\ F = << <<8 + op.data[n - 1].lcd.displayState, 0>> >>
                        /\ FramesOf(LastCalls(2)) =
                               << <<8 + last.lcd.displayState, 0>>,
                                  <<8 + op.data[n - 1].lcd.displayState, 0>> >>

C12_Witness ==
    /\ op.name = "session"
    /\ Len(op.data) = 2
    /\ op.data[1].name = "ToggleBlink"
    /\ op.data[2].name = "ToggleBlink"
    /\ op.data[1].lcd.displayState = 6
    /\ op.data[2].lcd.displayState = 7
    /\ lcd.displayState = 6
    /\ FramesOf(ev) = << <<15, 0>>, <<14, 0>> >>

(***************************************************************************)
(* The backlight.                                                          *)
(***************************************************************************)
\* C13: ToggleBacklight called twice in a row, no write failing, returns the
\* backlight bit of the handle to its original value, and the two bytes
\* written are the new backlight values in order: 0x08, 0x00 starting from
\* off and 0x00, 0x08 starting from on.
C13_BacklightRoundTrip ==
    (/\ op.name = "session"
     /\ Len(op.data) >= 2
     /\ op.data[Len(op.data)].name = "ToggleBacklight"
     /\ op.data[Len(op.data) - 1].name = "ToggleBacklight") =>
        LET orig == op.data[Len(op.data) - 1].lcd
        IN  /\ ret = "nil"
            /\ lcd = orig
            /\ WrittenOf(LastCalls(2)) =
                   (IF orig.backlight = lcdBacklightOff THEN <<8, 0>> ELSE <<0, 8>>)

C13_Witness ==
    /\ op.name = "session"
    /\ Len(op.data) = 2
    /\ op.data[1].name = "ToggleBacklight"
    /\ op.data[2].name = "ToggleBacklight"
    /\ op.data[1].lcd.backlight = lcdBacklightOn
    /\ op.data[2].lcd.backlight = lcdBacklightOff
    /\ lcd.backlight = lcdBacklightOn
    /\ WrittenOf(ev) = <<0, 8>>

(***************************************************************************)
(* The state the handle keeps and the commands the controller was sent.    *)
(***************************************************************************)
\* a display-control command: register-select clear, 0x08..0x0F
IsDisplayCtl(f) == f[2] = 0 /\ f[1] \in 8..15

\* C18: after a successful construction and any calls that follow it without
\* a failed write, the display-control state of the handle is the low three
\* bits of the last display-control command (0x08..0x0F) on the bus; right
\* after the construction it is 0x04: display on, cursor off, blink off.
C18_StateInSync ==
    (/\ op.name = "session"
     /\ op.data # <<>>
     /\ op.data[1].name = "New"
     /\ ret = "nil") =>
        LET ctl == SelectSeq(FramesOf(ev), IsDisplayCtl)
        IN  /\ ctl # <<>>
            /\ lcd.displayState = ctl[Len(ctl)][1] % 8
            /\ Len(op.data) = 1 => lcd.displayState = 4 /\ ctl = << <<12, 0>> >>

C18_Witness ==
    /\ op.name = "session"
    /\ Len(op.data) = 3
    /\ op.data[1].name = "New"
    /\ op.data[2].name = "CursorOn"
    /\ op.data[3].name = "WriteRAW"
    /\ ret = "nil"
    /\ lcd.displayState = 6
    /\ SelectSeq(FramesOf(ev), IsDisplayCtl) = << <<12, 0>>, <<14, 0>> >>

(***************************************************************************)
(* Text.                                                                   *)
(***************************************************************************)
\* the data bytes of a text: each code point modulo 256, register-select set
DataFrames(text) == <<>> \o [i \in 1..Len(text) |-> <<text[i] % 256, 1>>]

\* C14: Write(text) of n code points, no write failing, sends exactly n data
\* bytes in the order of the text, the i-th being the i-th code point modulo
\* 256, and no command byte, whether n is below or above the number of
\* columns; Write of the empty text writes nothing.
C14_WriteDataOnly ==
    (op.name = "Write" /\ NoWriteFailed) =>
        /\ ret = "nil"
        /\ lcd = pre
        /\ Len(Written) = 4 * Len(op.data)
        /\ Frames = DataFrames(op.data)
        /\ \A i \in 1..Len(Frames) : Frames[i][2] = 1
        /\ op.data = <<>> => ev = <<>>

C14_Witness ==
    /\ op.name = "Write"
    /\ NoWriteFailed
    /\ pre.cols = 16
    /\ Len(op.data) = 21
    /\ Len(Frames) = 21
    /\ Frames[1] = <<65, 1>>
    /\ Frames[20] = <<84, 1>>
    /\ Frames[21] = <<85, 1>>

\* C15: Print(text, row, col) is SetCursor(row, col) then Write(text).  When
\* SetCursor rejects the position, Print returns that error and nothing is
\* written.  When a write fails in the k-th character, Print returns the
\* error, the address command and the first k-1 characters have gone out,
\* and nothing is written after the failed write.
C15_PrintCursorThenWrite ==
    op.name = "Print" =>
        /\ lcd = pre
        /\ IF SetCursor(Run(pre, NoFail), op.args[1], op.args[2]).err = "invalid"
           THEN /\ ret = "invalid"
                /\ ev = <<>>
           ELSE LET full == << <<RowBase(op.args[1]) + op.args[2], 0>> >>
                                \o DataFrames(op.data)
                IN  IF NoWriteFailed
                    THEN /\ ret = "nil"
                         /\ Frames = full
                         /\ Len(Written) = 4 * Len(full)
                    ELSE /\ ret = "io"
                         /\ Len(Written) = op.ok
                         /\ SubSeq(Frames, 1, op.ok \div 4) = SubSeq(full, 1, op.ok \div 4)
                         /\ Len(Frames) <= op.ok \div 4 + 1
                         /\ Len(SelectSeq(ev, IsFailed)) = 1
                         /\ IsFailed(ev[Len(ev)])

C15_Witness ==
    /\ op.name = "Print"
    /\ op.args = <<1, 5>>
    /\ Len(op.data) = 3
    /\ op.ok = 10
    /\ ret = "io"
    /\ Len(Written) = 10
    /\ Frames = << <<197, 0>>, <<65, 1>> >>
    /\ IsFailed(ev[Len(ev)])

(***************************************************************************)
(* Failed writes.                                                          *)
(***************************************************************************)
\* C16: in every public operation a failed transport write makes the
\* operation return the error; the write is attempted once, and no transport
\* write follows it.
C16_FailStops ==
    (op.name \notin {"idle", "arg", "session"} /\ ~NoWriteFailed) =>
        /\ ret = "io"
        /\ Len(SelectSeq(ev, IsFailed)) = 1
        /\ IsFailed(ev[Len(ev)])
        /\ Len(Written) = op.ok

C16_Witness ==
    /\ op.name = "UploadCustomChar"
    /\ op.ok = 4
    /\ ret = "io"
    /\ Len(Written) = 4
    /\ IsFailed(ev[Len(ev)])
    /\ Len(SelectSeq(ev, IsFailed)) = 1

\* C19: when the write of DisplayOn/Off, CursorOn/Off, BlinkOn/Off,
\* EnableBacklight or DisableBacklight fails, the operation returns the error
\* and the handle keeps the state the operation assigned: it is not put back,
\* so it can differ from what the bytes delivered so far told the controller.
C19_NoRollback ==
    (~NoWriteFailed) =>
        /\ op.name \in OnNames \cup OffNames =>
            /\ ret = "io"
            /\ lcd.displayState =
                   (IF op.name \in OnNames
                    THEN WithBit(pre.displayState, OwnBit(op.name))
                    ELSE WithoutBit(pre.displayState, OwnBit(op.name)))
        /\ op.name = "EnableBacklight" => ret = "io" /\ lcd.backlight = lcdBacklightOn
        /\ op.name = "DisableBacklight" => ret = "io" /\ lcd.backlight = lcdBacklightOff

\* DisplayOff fails at its first write: the handle says display off, the
\* controller was sent nothing
C19_Witness ==
    /\ op.name = "DisplayOff"
    /\ op.ok = 0
    /\ ret = "io"
    /\ Written = <<>>
    /\ pre.displayState = 4
    /\ lcd.displayState = 0

(***************************************************************************)
(* A failed construction.                                                  *)
(***************************************************************************)
\* the bytes of an initialisation in which no write fails
InitBytesOf(cols, rows, font) ==
    WrittenOf(init(Run(NewLCD(cols, rows, font), NoFail)).ev)

\* C20: when a transport write fails during the construction, New returns an
\* error and no handle, writes nothing after the failed write, and neither
\* restarts nor retries any part of the initialisation: what was written is
\* the beginning of the one initialisation sequence.
C20_NewAborts ==
    (op.name = "New" /\ ~NoWriteFailed) =>
        /\ ret = "io"
        /\ lcd = NoHandle
        /\ Len(SelectSeq(ev, IsFailed)) = 1
        /\ IsFailed(ev[Len(ev)])
        /\ Len(Written) = op.ok
        /\ Written = SubSeq(InitBytesOf(op.args[1], op.args[2], op.args[3]), 1, op.ok)

C20_Witness ==
    /\ op.name = "New"
    /\ op.args = <<16, 2, Font5x8, 1, 1>>
    /\ op.ok = 17
    /\ ret = "io"
    /\ lcd = NoHandle
    /\ Len(Written) = 17
    /\ IsFailed(ev[Len(ev)])

(***************************************************************************)
(* Two callers.                                                            *)
(***************************************************************************)
\* caller c is between the enable-set and the enable-clear write of a nibble
MidTransfer(c) == op.args[c] \in {1, 3}

\* C17: the driver has no mutual exclusion: while one caller is between the
\* enable-set and the enable-clear write of a nibble transfer, the other
\* caller's next bus write can always be made, so a write of one caller can
\* land between the two writes of the other and break the set-then-clear
\* pairing on the bus.
C17_NoMutualExclusion ==
    op.name = "concurrent" =>
        \A c \in Callers :
            (MidTransfer(c) /\ op.args[Other(c)] < 4) =>
                ENABLED StepWriteRAW(Other(c))

\* caller 1 sets enable, caller 2 writes, caller 1 clears enable
C17_Witness ==
    /\ op.name = "concurrent"
    /\ \E i \in 1..(Len(ev) - 2) :
        /\ ev[i].by = 1
        /\ HasEnable(ev[i].b)
        /\ ev[i + 1].by = 2
        /\ ev[i + 2].by = 1
        /\ ~HasEnable(ev[i + 2].b)
        /\ ev[i + 2].b = ev[i].b - 4

(***************************************************************************)
(* Text after a glyph.                                                     *)
(***************************************************************************)
\* the text the session hands to Write or WriteRAW
TextOf(name) == IF name = "Write" THEN SessionText ELSE <<12>>

\* C21: UploadCustomChar ends with its eighth data byte and sends no DDRAM
\* address command (bit 7 set) after it; so when Write or WriteRAW is the very
\* next call, it is not rejected, no address command is put before its data
\* bytes, and each of them goes out while the last address command on the
\* bus is the CGRAM one, 0x40 | (location & 7) << 3.
C21_WriteAfterUpload ==
    (op.name = "session" /\ op.data # <<>>) =>
        LET n == Len(op.data)
            last == op.data[n]
        IN  /\ last.name = "UploadCustomChar" =>
                LET F == FramesOf(LastCalls(1))
                IN  /\ ret = "nil"
                    /\ F = << <<88, 0>> >> \o DataFrames(cthulhu)
                    /\ \A i \in 1..Len(F) : ~(F[i][2] = 0 /\ F[i][1] >= 128)
                    /\ F[Len(F)] = <<cthulhu[8], 1>>
            /\ (/\ n >= 2
                /\ last.name \in {"Write", "WriteRAW"}
                /\ op.data[n - 1].name = "UploadCustomChar") =>
                LET F == FramesOf(LastCalls(2))
                IN  /\ ret = "nil"
                    /\ F = << <<88, 0>> >> \o DataFrames(cthulhu)
                               \o DataFrames(TextOf(last.name))
                    /\ \A i \in 2..Len(F) : F[i][2] = 1

C21_Witness ==
    /\ op.name = "session"
    /\ Len(op.data) = 2
    /\ op.data[1].name = "UploadCustomChar"
    /\ op.data[2].name = "Write"
    /\ ret = "nil"
    /\ FramesOf(ev) = << <<88, 0>>, <<14, 1>>, <<31, 1>>, <<21, 1>>, <<31, 1>>,
                         <<14, 1>>, <<31, 1>>, <<21, 1>>, <<21, 1>>,
                         <<72, 1>>, <<73, 1>> >>

(***************************************************************************)
(* Waits.                                                                  *)
(***************************************************************************)
\* a wait of exactly us microseconds at position j of the log
IsSleep(j, us) == ev[j].k = "s" /\ ev[j].b = us

\* the positions of the writes and failed writes, and of the accepted writes
\* that strobe the nibble 0x3
Attempts == {i \in 1..Len(ev) : ev[i].k \in {"w", "x"}}

Threes == {i \in 1..Len(ev) : ev[i].k = "w" /\ HasEnable(ev[i].b) /\ ev[i].b \div 16 = 3}

\* the k-th smallest element of a set of positions
Nth(S, k) == CHOOSE i \in S : Cardinality({j \in S : j < i}) = k - 1

\* C22: with each sleep an event of the log: in every construction a wait of
\* at least 30 ms comes before the first transport write, a 5 ms wait comes
\* between the first and the second 0x3 pattern, a 100 us wait between the
\* second and the third; the clear that ends the initialisation, and every
\* later Clear and Home, is followed by a 2 ms wait before the call returns.
C22_Waits ==
    /\ (op.name = "New" /\ Attempts # {}) =>
        \E j \in 1..(Nth(Attempts, 1) - 1) : ev[j].k = "s" /\ ev[j].b >= 30000
    /\ (op.name = "New" /\ Cardinality(Threes) >= 2) =>
        \E j \in (Nth(Threes, 1) + 1)..(Nth(Threes, 2) - 1) : IsSleep(j, 5000)
    /\ (op.name = "New" /\ Cardinality(Threes) >= 3) =>
        \E j \in (Nth(Threes, 2) + 1)..(Nth(Threes, 3) - 1) : IsSleep(j, 100)
    /\ (op.name \in {"New", "Clear", "Home"} /\ ret = "nil") =>
        /\ Attempts # {}
        /\ Frames[Len(Frames)] = <<(IF op.name = "Home" THEN 2 ELSE 1), 0>>
        /\ IsSleep(Len(ev), 2000)
        /\ \A i \in Attempts : i < Len(ev)

C22_Witness ==
    /\ op.name = "New"
    /\ ret = "nil"
    /\ Cardinality(Threes) = 3
    /\ ev[2] = Ev("s", 50000, 0)
    /\ Nth(Attempts, 1) = 3
    /\ IsSleep(Nth(Threes, 1) + 3, 5000)
    /\ IsSleep(Nth(Threes, 2) + 3, 100)
    /\ IsSleep(Len(ev), 2000)

(***************************************************************************)
(* The driver of src/pkg/lcd.                                              *)
(***************************************************************************)
\* C23: init of lcd.go delivers each of the four boot patterns (0x3 three
\* times, then 0x2) with an enable pulse: a write with the enable bit set,
\* then the same byte with the enable bit cleared.
C23_PkgInitPulses ==
    (op.name = "PkgNew" /\ ret = "nil") =>
        LET W == Written
        IN  /\ Len(W) >= 8
            /\ \A k \in 1..4 :
                /\ W[2 * k - 1] \div 16 = (IF k = 4 THEN 2 ELSE 3)
                /\ HasEnable(W[2 * k - 1])
                /\ W[2 * k] = W[2 * k - 1] - 4

\* C24: SetCursor of lcd.go returns an error and writes nothing for every col
\* outside [0, cols), col = cols and negative col included; the command byte
\* of every input it accepts has bit 7 set.
C24_PkgSetCursorRange ==
    op.name = "PkgSetCursor" =>
        /\ op.args[2] \notin 0..(pre.cols - 1) => (ret = "invalid" /\ ev = <<>>)
        /\ (ret = "nil") => (Frames[1][1] >= 128 /\ Frames[1][2] = 0)

(***************************************************************************)
(* The transport of a failed construction.                                 *)
(***************************************************************************)
\* C25: when New fails because a write of the initialisation fails, the
\* transport it opened is closed before it returns.
C25_FailedNewCloses ==
    (op.name = "New" /\ ~NoWriteFailed) => i2c # "open"

(***************************************************************************)
(* The backlight byte and the bits that never change.                      *)
(***************************************************************************)
BacklightNames == {"EnableBacklight", "DisableBacklight", "ToggleBacklight"}

\* C26: EnableBacklight and DisableBacklight each write exactly one byte,
\* 0x08 and 0x00: the enable bit clear and the data nibble zero, so nothing
\* is latched into the controller; the display-control state, the geometry
\* and the font of the handle stay as they were.  No operation on a handle
\* other than EnableBacklight, DisableBacklight and ToggleBacklight changes
\* the backlight state of the handle.
C26_BacklightByte ==
    /\ (op.name = "EnableBacklight") =>
        /\ lcd = [pre EXCEPT !.backlight = lcdBacklightOn]
        /\ NoWriteFailed => (ret = "nil" /\ Written = <<8>> /\ Nibbles = <<>>)
    /\ (op.name = "DisableBacklight") =>
        /\ lcd = [pre EXCEPT !.backlight = lcdBacklightOff]
        /\ NoWriteFailed => (ret = "nil" /\ Written = <<0>> /\ Nibbles = <<>>)
    /\ (op.name \notin BacklightNames \cup {"New", "Close"}) =>
        lcd.backlight = pre.backlight

C26_Witness ==
    /\ op.name = "EnableBacklight"
    /\ pre.backlight = lcdBacklightOff
    /\ pre.displayState = 6
    /\ lcd.backlight = lcdBacklightOn
    /\ lcd.displayState = 6
    /\ ret = "nil"
    /\ Written = <<8>>

\* C27: in every reachable state, whatever the operations and arguments:
\* every byte handed to the transport has the read/write bit (0x02) clear,
\* the backlight state of the handle is 0x00 or 0x08, its display-control
\* state has no bit outside 0x07, and after every operation that returns
\* without error the last byte written has the enable bit (0x04) clear.
C27_WriteOnly ==
    /\ \A i \in 1..Len(ev) : ev[i].k \in {"w", "x"} => Bit(ev[i].b, 2) = 0
    /\ lcd.backlight \in {lcdBacklightOff, lcdBacklightOn}
    /\ lcd.displayState \in 0..7
    /\ (ret = "nil" /\ Written # <<>>) => ~HasEnable(Written[Len(Written)])

C27_Witness ==
    /\ op.name = "WriteRAW"
    /\ op.args = <<255>>
    /\ ret = "nil"
    /\ pre.backlight = lcdBacklightOn
    /\ lcd.displayState = 7
    /\ Written = <<253, 249, 253, 249>>

(***************************************************************************)
(* The addresses SetCursor sends.                                          *)
(***************************************************************************)
\* the command byte SetCursor(row, col) sends on handle h; -1 when it rejects
AddrOf(h, row, col) ==
    LET r == SetCursor(Run(h, NoFail), row, col)
    IN  IF r.err = "nil" THEN FramesOf(r.ev)[1][1] ELSE 0 - 1

\* C28: for every valid geometry and every (row, col) SetCursor accepts,
\* base(row) + col does not overflow a byte (it is at most 0xE7) and has bit
\* 7 set, and no other accepted (row, col) gives the same command byte.
C28_AddressesDistinct ==
    (op.name = "SetCursor" /\ ret = "nil") =>
        LET b == Frames[1][1]
        IN  /\ b = RowBase(op.args[1]) + op.args[2]
            /\ b <= 231
            /\ b >= 128
            /\ \A r2 \in CursorRows, c2 \in AllCols :
                (<<r2, c2>> # op.args) => AddrOf(pre, r2, c2) # b

C28_Witness ==
    /\ op.name = "SetCursor"
    /\ ret = "nil"
    /\ pre.cols = 20
    /\ op.args = <<3, 19>>
    /\ Frames[1][1] = 231
    /\ AddrOf(pre, 1, 19) = 211
    /\ AddrOf(pre, 3, 0) = 212

(***************************************************************************)
(* The walking character.                                                  *)
(***************************************************************************)
\* C29: for a walker made with turnForwardCol < turnBackCol and the start
\* column between them, whatever the direction argument: after any number of
\* MakeStep calls direction is 1 or -1 and curCol lies within
\* [turnForwardCol, turnBackCol]; each MakeStep moves curCol by exactly one,
\* and first blanks the column it leaves, then draws the glyph at the new
\* column, both on the walker's row.
C29_WalkerInRange ==
    (wk # NoWalker) =>
        /\ wk.direction \in {1, 0 - 1}
        /\ wk.turnForwardCol <= wk.curCol
        /\ wk.curCol <= wk.turnBackCol
        /\ op.name = "CtulhuNew" =>
            /\ wk.direction = (IF op.args[5] < 0 THEN 0 - 1 ELSE 1)
            /\ wk.curCol = op.args[2]
        /\ op.name = "MakeStep" =>
            /\ wk.curCol - op.args[1] \in {1, 0 - 1}
            /\ wk.curCol - op.args[1] = wk.direction
            /\ NoWriteFailed =>
                Frames = << <<RowBase(wk.curRow) + op.args[1], 0>>,
                            <<32, 1>>,
                            <<RowBase(wk.curRow) + wk.curCol, 0>>,
                            <<wk.charLocation, 1>> >>

\* a step that starts at the turning column turns back
C29_Witness ==
    /\ op.name = "MakeStep"
    /\ wk.turnForwardCol = 1
    /\ wk.turnBackCol = 3
    /\ wk.curRow = 1
    /\ op.args = <<3, 1>>
    /\ wk.direction = 0 - 1
    /\ wk.curCol = 2
    /\ NoWriteFailed
    /\ Frames = << <<195, 0>>, <<32, 1>>, <<194, 0>>, <<0, 1>> >>

====
